---- MODULE Spec2Model ----
(***************************************************************************)
(* A model of the iCondo tennis booking bot: the retry wrapper around      *)
(* ICondoBot.attempt_booking, the booking attempt itself, the slot ranking *)
(* of BookingPage.book_preferred_slot and ICondoBot.should_book_today.     *)
(*                                                                         *)
(* Times of day are minutes since midnight, dates are proleptic Gregorian  *)
(* ordinals (date.toordinal()), exceptions are records.                    *)
(***************************************************************************)
EXTENDS Integers, Sequences, FiniteSets, TLC

VARIABLES
    mode,                 \* "scheduled" (main.py) or "one_shot" (scripts/run_once.py)
    screenshot_on_error,  \* settings.browser.screenshot_on_error
    has_notifier,         \* ICondoBot.notifier is not None
    today,                \* date.today()
    advance_booking_days, \* settings.booking.advance_booking_days
    preferred_days,       \* settings.booking.preferred_days (values)
    preferred_courts,     \* settings.booking.preferred_courts
    start_pref,           \* settings.booking.preferred_times.start_time
    end_pref,             \* settings.booking.preferred_times.end_time
    retry_count,          \* settings.scheduler.retry_count
    settings_ok,          \* Settings.load() returns the settings (it raises otherwise)
    pc,                   \* position of the run
    target_date,          \* the target_date argument of attempt_booking
    attempt_number,       \* tenacity's retry_state.attempt_number
    outcome,              \* tenacity's retry_state.outcome of the current attempt
    outcomes,             \* the outcomes of the attempts that have ended, in order
    delays,               \* the backoff delays slept so far, in order
    result,               \* what the retry wrapper gave the caller of attempt_booking
    run_result,           \* what run_scheduled_booking gave its caller
    browser_started,      \* BrowserManager._browser is set
    session_open,         \* the attempt's browser context is open
    sessions,             \* number of browser contexts created in the run
    calls,                \* collaborator calls of the current attempt, in order
    slots,                \* the list returned by get_available_slots
    ranked,               \* in_window after the sort (the slots to attempt)
    slot_idx,             \* position of the booking loop in ranked
    tried,                \* the book_slot calls of the current attempt, in order
    login_success,        \* what login_page.login() gave the current attempt
    scan_error,           \* get_available_slots caught an exception while scanning
    booked,               \* the slots whose book_slot returned true in the run
    exit_code,            \* the exit code of scripts/run_once.py (-1: none yet)
    notifications,        \* the notifications sent in the run, in order
    should_book,          \* the value returned by should_book_today
    attempts,             \* history: how many times the attempt function was called
    reached,              \* history: the calls (by number) in which
                          \* book_preferred_slot returned, with None or a slot
    none_returned,        \* history: those of them in which it returned None
    slot_elements,        \* the slot elements of the page, when the scan is on its own
    date_picker,          \* select_date: the lookup of the date picker
    date_filled,          \* select_date: the date was typed into the date picker
    next_found,           \* select_date: next buttons found so far
    next_clicks,          \* select_date: clicks made on a next button so far
    instances,            \* scheduler: running instances of the booking job
    fired,                \* scheduler: how many times the trigger has fired
    skipped,              \* scheduler: the firings (by number) that were skipped
    job,                  \* scheduler: position of the job run of each firing
    bot_users,            \* scheduler: the job runs inside `async with self.bot`
    playwright_started,   \* BrowserManager._playwright is set, when the manager is on its own
    manager_log           \* the calls made on the BrowserManager on its own, in order

cfgVars == <<mode, screenshot_on_error, has_notifier, today, advance_booking_days,
             preferred_days, preferred_courts, start_pref, end_pref, retry_count,
             settings_ok>>
retryVars == <<attempt_number, outcome, outcomes, delays>>
pageVars == <<slots, ranked, slot_idx, tried, login_success, scan_error>>
histVars == <<attempts, reached, none_returned>>
dateVars == <<date_picker, date_filled, next_found, next_clicks>>
schedVars == <<instances, fired, skipped, job, bot_users>>
\* the state of the parts that are also modelled on their own
managerVars == <<playwright_started, manager_log>>
otherVars == <<slot_elements, dateVars, schedVars, managerVars>>
vars == <<cfgVars, retryVars, pageVars, histVars, otherVars, pc, target_date, result, run_result,
          browser_started,
          session_open, sessions, calls, booked, exit_code, notifications, should_book>>

----------------------------------------------------------------------------
(* Bounds of the model *)

\* longest page (number of slot elements) a scan sees
MaxElements == 2
\* furthest target date, in days from today, when select_date is checked on its own
MaxAhead == 7
\* how many calls are made on the BrowserManager when it is checked on its own
MaxOps == 4
\* how many times the daily trigger fires when the scheduler is checked
MaxTriggers == 4
\* largest configured retry_count when the run is checked for every retry_count
MaxRetryCount == 3
\* longest slot list handed to the ranking when it is checked on its own
MaxSlots == 2
\* longest court priority list (three entries, so that a court can be named
\* again after another one)
MaxCourts == 3
\* number of consecutive days, starting at FirstDay, that today ranges over
MaxDays == 8
\* largest advance_booking_days
MaxAdvance == 8

(* Program constants *)

\* stop_after_attempt(3)
StopAttempts == 3
\* wait_exponential(multiplier=1, min=2, max=10)
WaitMultiplier == 1
WaitMin == 2
WaitMax == 10
\* court_priority.get(s.court, 999)
AbsentPriority == 999
\* date(2024, 6, 3).toordinal(), a Monday
FirstDay == 739040

Time(h, m) == h * 60 + m

Min(a, b) == IF a <= b THEN a ELSE b
Max(a, b) == IF a >= b THEN a ELSE b

SeqsUpTo(S, n) == UNION {[1..k -> S] : k \in 0..n}

Range(s) == {s[i] : i \in 1..Len(s)}

----------------------------------------------------------------------------
(* ICondoBot.should_book_today *)

DayNames == <<"monday", "tuesday", "wednesday", "thursday", "friday",
              "saturday", "sunday">>

\* date.weekday(): Monday is 0; ordinal 1 (0001-01-01) is a Monday
Weekday(d) == (d + 6) % 7

\* date.strftime("%A").lower()
DayName(d) == DayNames[Weekday(d) + 1]

\* variant: the weekday of today instead of the target date
ShouldBookWrongDay(t, advance, preferred) == DayName(t) \in Range(preferred)

\* variant: every day is a booking day
ShouldBookAlways(t, advance, preferred) == TRUE

\* today + timedelta(days=advance), the name of its day looked up in the
\* list of preferred day values
ShouldBookToday(t, advance, preferred) == DayName(t + advance) \in Range(preferred)

----------------------------------------------------------------------------
(* The retry policy of attempt_booking (tenacity) *)

\* stop_after_attempt(3): stop once attempt_number >= 3
StopAfterAttempt(n) == n >= StopAttempts

\* variant: without the floor of min seconds
WaitNoFloor(n) == Min(WaitMultiplier * 2 ^ (n - 1), WaitMax)

\* variant: the exponent is the attempt number, not the attempt number less one
WaitDoubling(n) == Max(Max(0, WaitMin), Min(WaitMultiplier * 2 ^ n, WaitMax))

\* wait_exponential(multiplier=1, min=2, max=10), asked after attempt n failed:
\* max(max(0, min), min(multiplier * 2 ** (n - 1), max))
WaitExponential(n) == Max(Max(0, WaitMin), Min(WaitMultiplier * 2 ^ (n - 1), WaitMax))

\* variant: a retry after whatever the attempt gave
RetryAfterAnyOutcome(o) == o.kind # "none"

\* retry_if_exception_type(BookingError)
RetryIf(o) == o.kind = "exception" /\ o.exc.type = "BookingError"

\* variant: the exception of the first attempt
ReraiseFirst(os) == os[1].exc

\* reraise=True: when the tries are used up, the exception of the last attempt
\* is raised again
Reraise(os) == os[Len(os)].exc

----------------------------------------------------------------------------
(* The ranking of BookingPage.book_preferred_slot *)

InWindowTest(s, lo, hi) == s.available /\ lo <= s.start_time /\ s.start_time <= hi

\* variant: the window is not looked at
InWindowAnyTime(ss, lo, hi) == SelectSeq(ss, LAMBDA s : s.available)

\* [s for s in slots if s.available and start_pref <= s.start_time <= end_pref]
InWindow(ss, lo, hi) == SelectSeq(ss, LAMBDA s : InWindowTest(s, lo, hi))

\* variant: the fallback takes every slot
FallbackEverySlot(ss) == ss

\* variant: no fallback
FallbackNone(ss) == << >>

\* [s for s in slots if s.available]
Fallback(ss) == SelectSeq(ss, LAMBDA s : s.available)

\* variant: a court absent from the list sorts first
CourtPriorityAbsentFirst(courts, court) ==
    IF court \in Range(courts)
    THEN CHOOSE i \in 0..(Len(courts) - 1) :
             /\ courts[i + 1] = court
             /\ \A j \in (i + 1)..(Len(courts) - 1) : courts[j + 1] # court
    ELSE -1

\* court_priority = {c: i for i, c in enumerate(preferred_courts)}: a court
\* named more than once keeps the index of its last entry;
\* court_priority.get(court, 999)
CourtPriority(courts, court) ==
    IF court \in Range(courts)
    THEN CHOOSE i \in 0..(Len(courts) - 1) :
             /\ courts[i + 1] = court
             /\ \A j \in (i + 1)..(Len(courts) - 1) : courts[j + 1] # court
    ELSE AbsentPriority

\* list.sort(key=...) is stable: an insertion sort that puts each slot after
\* the slots of equal key that came before it
RECURSIVE InsertByKey(_, _, _)
InsertByKey(done, s, courts) ==
    IF done = << >> THEN <<s>>
    ELSE IF CourtPriority(courts, Head(done).court) <= CourtPriority(courts, s.court)
         THEN <<Head(done)>> \o InsertByKey(Tail(done), s, courts)
         ELSE <<s>> \o done

\* variant: a sort that puts a slot after the later slots of equal key
RECURSIVE SortUnstable(_, _)
SortUnstable(ss, courts) ==
    IF ss = << >> THEN << >>
    ELSE LET rest == SortUnstable(Tail(ss), courts)
             s == Head(ss)
             upto == SelectSeq(rest, LAMBDA x :
                         CourtPriority(courts, x.court) <= CourtPriority(courts, s.court))
             above == SelectSeq(rest, LAMBDA x :
                          CourtPriority(courts, x.court) > CourtPriority(courts, s.court))
         IN  upto \o <<s>> \o above

\* in_window.sort(key=lambda s: court_priority.get(s.court, 999))
RECURSIVE SortByCourt(_, _)
SortByCourt(ss, courts) ==
    IF ss = << >> THEN << >>
    ELSE InsertByKey(SortByCourt(SubSeq(ss, 1, Len(ss) - 1), courts), ss[Len(ss)], courts)

\* lines 322-340 of book_preferred_slot: the slots it goes on to attempt, in order
Rank(ss, lo, hi, courts) ==
    LET in_window == InWindow(ss, lo, hi)
        candidates == IF in_window = << >> THEN Fallback(ss) ELSE in_window
    IN  SortByCourt(candidates, courts)

----------------------------------------------------------------------------
(* The scan: BookingPage.get_available_slots and _parse_slot_text *)

\* What the first match of the time pattern in an element's text gives: the
\* hour digits, the minute digits if any, AM/PM if any; or no match at all
NoMatch == [matched |-> FALSE, hour |-> 0, has_minute |-> FALSE, minute |-> 0,
            am_pm |-> ""]

Match(h, m, ap) == [matched |-> TRUE, hour |-> h, has_minute |-> TRUE, minute |-> m,
                    am_pm |-> ap]

\* variant: the end hour wraps around midnight
ParseSlotTextWrap(text, index) ==
    IF ~text.matched THEN << >>
    ELSE LET minute == IF text.has_minute THEN text.minute ELSE 0
             hour == IF text.am_pm = "PM" /\ text.hour # 12 THEN text.hour + 12
                     ELSE IF text.am_pm = "AM" /\ text.hour = 12 THEN 0
                     ELSE text.hour
         IN  IF hour \in 0..23 /\ minute \in 0..59
             THEN << [court |-> "Tennis Court",
                      date |-> today,
                      start_time |-> Time(hour, minute),
                      end_time |-> Time((hour + 1) % 24, minute),
                      available |-> FALSE,
                      element_selector |-> index + 1] >>
             ELSE << >>

\* _parse_slot_text: the slot in a one-element list, or the empty list for None
ParseSlotText(text, index) ==
    IF ~text.matched THEN << >>
    ELSE LET minute == IF text.has_minute THEN text.minute ELSE 0
             hour == IF text.am_pm = "PM" /\ text.hour # 12 THEN text.hour + 12
                     ELSE IF text.am_pm = "AM" /\ text.hour = 12 THEN 0
                     ELSE text.hour
         IN  \* time(hour, minute) and time(hour + 1, minute) raise ValueError
             \* outside 0..23 and 0..59
             IF hour \in 0..23 /\ minute \in 0..59 /\ (hour + 1) \in 0..23
             THEN << [court |-> "Tennis Court",
                      date |-> today,
                      start_time |-> Time(hour, minute),
                      end_time |-> Time(hour + 1, minute),
                      available |-> FALSE,
                      element_selector |-> index + 1] >>
             ELSE << >>

\* the loop of get_available_slots over the first n elements of the page
\* (an exception at element n + 1 ends the loop and keeps what was found)
RECURSIVE GetAvailableSlots(_, _)
GetAvailableSlots(page, n) ==
    IF n = 0 THEN << >>
    ELSE LET before == GetAvailableSlots(page, n - 1)
             element == page[n]
             parsed == ParseSlotText(element.text, n - 1)
         IN  IF element.blocked THEN before
             ELSE IF parsed # << >> /\ element.available
                  THEN Append(before, [parsed[1] EXCEPT !.available = TRUE])
                  ELSE before

\* the slot elements a page may show
PageElements ==
    { [available |-> TRUE,  blocked |-> FALSE, text |-> Match(9, 0, "")],
      [available |-> TRUE,  blocked |-> FALSE, text |-> Match(7, 0, "AM")],
      [available |-> TRUE,  blocked |-> TRUE,  text |-> Match(8, 0, "")],
      [available |-> FALSE, blocked |-> FALSE, text |-> Match(10, 0, "")],
      [available |-> TRUE,  blocked |-> FALSE, text |-> Match(11, 0, "PM")],
      [available |-> TRUE,  blocked |-> FALSE, text |-> NoMatch] }

Pages == SeqsUpTo(PageElements, MaxElements)

----------------------------------------------------------------------------
(* Exceptions, outcomes and results *)

NoExc == [type |-> "none", msg |-> "", cause |-> "", attempt |-> 0]

\* an exception other than BookingError raised by the collaborator `origin`
Raised(origin) == [type |-> "Exception", msg |-> origin, cause |-> "",
                   attempt |-> attempt_number]

\* BookingError("Login failed")
LoginFailed == [type |-> "BookingError", msg |-> "Login failed", cause |-> "",
                attempt |-> attempt_number]

\* BookingError(f"Booking failed: {e}") from e
BookingFailed(e) == [type |-> "BookingError", msg |-> "Booking failed", cause |-> e.msg,
                     attempt |-> attempt_number]

NoOutcome == [kind |-> "none", value |-> << >>, exc |-> NoExc]
Returned(v) == [kind |-> "result", value |-> v, exc |-> NoExc]
Threw(e) == [kind |-> "exception", value |-> << >>, exc |-> e]

\* _save_screenshot: returns, or raises what page.screenshot raised; it does
\* nothing when screenshots are off
ScreenshotFails(shot_ok) == screenshot_on_error /\ ~shot_ok

\* the handler `except Exception as e` of attempt_booking: the screenshot, then
\* BookingError from e; a failing screenshot leaves the handler with its own error
HandlerOutcome(e, shot_ok) ==
    IF ScreenshotFails(shot_ok) THEN Threw(Raised("screenshot_error"))
    ELSE Threw(BookingFailed(e))

\* asyncio.CancelledError, which is not an Exception
Cancelled == [type |-> "CancelledError", msg |-> "cancelled", cause |-> "",
              attempt |-> attempt_number]

\* what the Telegram API call does: status 200, another status, or an
\* exception of the transport
Transports == {"200", "api_error", "exception"}

\* variant: an exception of the transport leaves send
SendLetsThrough(transport) ==
    [raised |-> transport = "exception", delivered |-> transport = "200"]

\* TelegramNotifier.send: true for status 200, false for another status and,
\* through its `except Exception`, for every exception; it raises nothing
Send(transport) == [raised |-> FALSE, delivered |-> transport = "200"]

\* variant: no message for a failure
NotifySuccessOnly(kind, delivered) ==
    IF has_notifier /\ kind = "success"
    THEN Append(notifications, [kind |-> kind, delivered |-> delivered,
                                attempt |-> attempt_number])
    ELSE notifications

\* _notify_success / _notify_failure: a message only when a notifier is set
Notify(kind, delivered) ==
    IF has_notifier
    THEN Append(notifications, [kind |-> kind, delivered |-> delivered,
                                attempt |-> attempt_number])
    ELSE notifications

----------------------------------------------------------------------------
(* The run: Init and the steps of one run of the booking job *)

DefaultCourts == <<"Tennis Court 1", "Tennis Court 2">>
DefaultDays == <<"saturday", "sunday">>

\* what no run has touched yet
Untouched ==
    /\ attempt_number = 1
    /\ outcome = NoOutcome
    /\ outcomes = << >>
    /\ delays = << >>
    /\ result = NoOutcome
    /\ run_result = NoOutcome
    /\ browser_started = FALSE
    /\ session_open = FALSE
    /\ sessions = 0
    /\ calls = << >>
    /\ ranked = << >>
    /\ slot_idx = 1
    /\ tried = << >>
    /\ login_success = "unset"
    /\ scan_error = FALSE
    /\ booked = << >>
    /\ exit_code = -1
    /\ notifications = << >>
    /\ should_book = FALSE
    /\ attempts = 0
    /\ reached = {}
    /\ none_returned = {}

\* select_date has not been called
DateUntouched ==
    /\ date_picker = "unset"
    /\ date_filled = FALSE
    /\ next_found = 0
    /\ next_clicks = 0

\* the scheduler has fired nothing
SchedUntouched ==
    /\ instances = 0
    /\ fired = 0
    /\ skipped = {}
    /\ job = << >>
    /\ bot_users = {}

\* no call has been made on a BrowserManager on its own
ManagerUntouched ==
    /\ playwright_started = FALSE
    /\ manager_log = << >>

\* the settings as Settings.load() gives them with the defaults of settings.py;
\* today is a Monday or the Saturday after it
Init ==
    /\ mode \in {"scheduled", "one_shot"}
    /\ screenshot_on_error \in BOOLEAN
    /\ has_notifier \in BOOLEAN
    /\ today \in {FirstDay, FirstDay + 5}
    /\ advance_booking_days = 7
    /\ preferred_days = DefaultDays
    /\ preferred_courts = DefaultCourts
    /\ start_pref = Time(8, 0)
    /\ end_pref = Time(11, 0)
    /\ retry_count = 3
    /\ settings_ok \in BOOLEAN
    /\ pc = "idle"
    /\ slots = << >>
    /\ target_date = 0
    /\ Untouched
    /\ slot_elements = << >>
    /\ DateUntouched
    /\ SchedUntouched
    /\ ManagerUntouched

\* an attempt ends with outcome o (tenacity's set_result / set_exception)
EndAttempt(o, next) ==
    /\ outcome' = o
    /\ outcomes' = Append(outcomes, o)
    /\ pc' = next
    /\ UNCHANGED <<attempt_number, delays>>

\* the screenshot calls an ending attempt makes, when screenshots are on
Shot(name) == IF screenshot_on_error THEN <<name>> ELSE << >>

\* variant: exit code 0 whatever happened
ExitCodeAlwaysZero(success) == 0

\* sys.exit(0 if success else 1) of scripts/run_once.py
ExitCode(success) == IF success THEN 0 ELSE 1

\* Settings.load() raises: main.py exits with code 1, run_once.run_booking
\* returns False and main exits with code 1; no bot is made
SettingsLoadFails ==
    /\ pc = "idle"
    /\ ~settings_ok
    /\ exit_code' = ExitCode(FALSE)
    /\ pc' = "done"
    /\ UNCHANGED <<cfgVars, otherVars,
                   histVars, retryVars, pageVars, target_date, result, run_result,
                   browser_started, session_open, sessions, calls, booked, notifications,
                   should_book>>

\* `async with bot` (BotRunner._booking_job, run_once.run_booking): the browser
\* is started; run_once passes today + advance_booking_days as the target date
BotStart ==
    /\ pc = "idle"
    /\ settings_ok
    /\ browser_started' = TRUE
    /\ IF mode = "scheduled"
       THEN pc' = "gate" /\ UNCHANGED target_date
       ELSE pc' = "wrapper" /\ target_date' = today + advance_booking_days
    /\ UNCHANGED <<cfgVars, otherVars,
                   histVars, retryVars, pageVars, result, run_result, session_open,
                   sessions, calls, booked, exit_code, notifications, should_book>>

\* run_scheduled_booking up to the call of attempt_booking
RunScheduledBooking ==
    /\ pc = "gate"
    /\ should_book' = ShouldBookToday(today, advance_booking_days, preferred_days)
    /\ IF should_book'
       THEN /\ target_date' = today + advance_booking_days
            /\ pc' = "wrapper"
            /\ UNCHANGED run_result
       ELSE /\ run_result' = Returned(<< >>)
            /\ pc' = "stop"
            /\ UNCHANGED target_date
    /\ UNCHANGED <<cfgVars, otherVars,
                   histVars, retryVars, pageVars, result, browser_started, session_open,
                   sessions, calls, booked, exit_code, notifications>>

\* tenacity: no outcome yet, so the attempt function is called
BeginAttempt ==
    /\ pc = "wrapper"
    /\ outcome.kind = "none"
    /\ pc' = "new_page"
    /\ attempts' = attempts + 1
    /\ UNCHANGED <<reached, none_returned>>
    /\ calls' = << >>
    /\ slots' = << >>
    /\ ranked' = << >>
    /\ slot_idx' = 1
    /\ tried' = << >>
    /\ login_success' = "unset"
    /\ scan_error' = FALSE
    /\ UNCHANGED <<cfgVars, otherVars,
                   retryVars, target_date, result, run_result, browser_started,
                   session_open, sessions, booked, exit_code, notifications, should_book>>

\* tenacity: the attempt returned, or raised what the retry predicate does not
\* cover: the wrapper returns or raises the same
WrapperReturn ==
    /\ pc = "wrapper"
    /\ outcome.kind # "none"
    /\ ~RetryIf(outcome)
    /\ result' = outcome
    /\ pc' = "caller"
    /\ UNCHANGED <<cfgVars, otherVars,
                   histVars, retryVars, pageVars, target_date, run_result,
                   browser_started, session_open, sessions, calls, booked, exit_code,
                   notifications, should_book>>

\* tenacity: the tries are used up, reraise=True
WrapperStop ==
    /\ pc = "wrapper"
    /\ RetryIf(outcome)
    /\ StopAfterAttempt(attempt_number)
    /\ result' = Threw(Reraise(outcomes))
    /\ pc' = "caller"
    /\ UNCHANGED <<cfgVars, otherVars,
                   histVars, retryVars, pageVars, target_date, run_result,
                   browser_started, session_open, sessions, calls, booked, exit_code,
                   notifications, should_book>>

\* tenacity: another try; the delay is computed, the attempt number advances
\* and the wrapper sleeps
WrapperSleep ==
    /\ pc = "wrapper"
    /\ RetryIf(outcome)
    /\ ~StopAfterAttempt(attempt_number)
    /\ delays' = Append(delays, WaitExponential(attempt_number))
    /\ attempt_number' = attempt_number + 1
    /\ outcome' = NoOutcome
    /\ pc' = "sleep"
    /\ UNCHANGED <<cfgVars, otherVars,
                   histVars, pageVars, outcomes, target_date, result, run_result,
                   browser_started, session_open, sessions, calls, booked, exit_code,
                   notifications, should_book>>

\* the sleep is over
SleepDone ==
    /\ pc = "sleep"
    /\ pc' = "wrapper"
    /\ UNCHANGED <<cfgVars, otherVars,
                   histVars, retryVars, pageVars, target_date, result, run_result,
                   browser_started, session_open, sessions, calls, booked, exit_code,
                   notifications, should_book>>

----------------------------------------------------------------------------
(* One attempt: the body of attempt_booking *)

\* `async with self.browser_manager.new_page() as page`: context and page are there
NewPage ==
    /\ pc = "new_page"
    /\ browser_started
    /\ session_open' = TRUE
    /\ sessions' = sessions + 1
    /\ pc' = "login_navigate"
    /\ UNCHANGED <<cfgVars, otherVars,
                   histVars, retryVars, pageVars, target_date, result, run_result,
                   browser_started, calls, booked, exit_code, notifications, should_book>>

\* new_context raises (no browser, or the browser refuses a context): the
\* exception leaves attempt_booking as it is, outside its try
NewContextFails ==
    /\ pc = "new_page"
    /\ EndAttempt(Threw(Raised("new_context")), "wrapper")
    /\ UNCHANGED <<cfgVars, otherVars,
                   histVars, pageVars, target_date, result, run_result, browser_started,
                   session_open, sessions, calls, booked, exit_code, notifications,
                   should_book>>

\* variant: the page is made outside new_context, nothing closes the context
AfterPageErrorLeak == "wrapper"

\* new_page creates the page inside `async with self.new_context()`: an
\* exception of context.new_page() leaves through new_context's finally
AfterPageError == "close"

\* context.new_page() raises: the context is open and new_context closes it
ContextNewPageFails ==
    /\ pc = "new_page"
    /\ browser_started
    /\ session_open' = TRUE
    /\ sessions' = sessions + 1
    /\ EndAttempt(Threw(Raised("new_page")), AfterPageError)
    /\ UNCHANGED <<cfgVars, otherVars,
                   histVars, pageVars, target_date, result, run_result, browser_started,
                   calls, booked, exit_code, notifications, should_book>>

\* login_page.navigate()
LoginNavigate ==
    /\ pc = "login_navigate"
    /\ \E ok \in BOOLEAN, shot_ok \in BOOLEAN :
         IF ok
         THEN /\ calls' = Append(calls, "login_navigate")
              /\ pc' = "login"
              /\ UNCHANGED retryVars
         ELSE /\ calls' = calls \o <<"login_navigate">> \o Shot("screenshot_error")
              /\ EndAttempt(HandlerOutcome(Raised("login_navigate"), shot_ok), "close")
    /\ UNCHANGED <<cfgVars, otherVars,
                   histVars, pageVars, target_date, result, run_result, browser_started,
                   session_open, sessions, booked, exit_code, notifications, should_book>>

\* variant: the value login returned is not looked at
LoginNotChecked(r) == TRUE

\* `if not login_success`: the attempt goes on only after login returned true
LoginSucceeded(r) == r = "true"

\* login_page.login(): true, false (screenshot, BookingError("Login failed")) or
\* an exception; an exception of the login_failed screenshot is caught by
\* `except Exception` like any other
Login ==
    /\ pc = "login"
    /\ \E r \in {"true", "false", "raises"}, shot_ok \in BOOLEAN, shot2_ok \in BOOLEAN :
       /\ login_success' = r
       /\ CASE r # "raises" /\ LoginSucceeded(r) ->
                  /\ calls' = Append(calls, "login")
                  /\ pc' = "navigate_to_tennis"
                  /\ UNCHANGED retryVars
             [] r # "raises" /\ ~LoginSucceeded(r) ->
                  IF ScreenshotFails(shot_ok)
                  THEN /\ calls' = calls \o <<"login", "screenshot_login_failed",
                                               "screenshot_error">>
                       /\ EndAttempt(HandlerOutcome(Raised("screenshot_login_failed"), shot2_ok),
                                  "close")
                  ELSE /\ calls' = calls \o <<"login">> \o Shot("screenshot_login_failed")
                       /\ EndAttempt(Threw(LoginFailed), "close")
             [] r = "raises" ->
                  /\ calls' = calls \o <<"login">> \o Shot("screenshot_error")
                  /\ EndAttempt(HandlerOutcome(Raised("login"), shot2_ok), "close")
    /\ UNCHANGED <<cfgVars, otherVars,
                   histVars, slots, ranked, slot_idx, tried, scan_error, target_date, result,
                   run_result, browser_started, session_open, sessions, booked, exit_code,
                   notifications, should_book>>

\* booking_page.navigate_to_tennis()
NavigateToTennis ==
    /\ pc = "navigate_to_tennis"
    /\ \E ok \in BOOLEAN, shot_ok \in BOOLEAN :
         IF ok
         THEN /\ calls' = Append(calls, "navigate_to_tennis")
              /\ pc' = "select_date"
              /\ UNCHANGED retryVars
         ELSE /\ calls' = calls \o <<"navigate_to_tennis">> \o Shot("screenshot_error")
              /\ EndAttempt(HandlerOutcome(Raised("navigate_to_tennis"), shot_ok), "close")
    /\ UNCHANGED <<cfgVars, otherVars,
                   histVars, pageVars, target_date, result, run_result, browser_started,
                   session_open, sessions, booked, exit_code, notifications, should_book>>

\* book_preferred_slot, line 315: select_date returns, or lets through what
\* fill or click raised (it catches TimeoutError only)
SelectDate ==
    /\ pc = "select_date"
    /\ \E ok \in BOOLEAN, shot_ok \in BOOLEAN :
         IF ok
         THEN /\ calls' = Append(calls, "select_date")
              /\ pc' = "scan"
              /\ UNCHANGED retryVars
         ELSE /\ calls' = calls \o <<"select_date">> \o Shot("screenshot_error")
              /\ EndAttempt(HandlerOutcome(Raised("select_date"), shot_ok), "close")
    /\ UNCHANGED <<cfgVars, otherVars,
                   histVars, pageVars, target_date, result, run_result, browser_started,
                   session_open, sessions, booked, exit_code, notifications, should_book>>

\* book_preferred_slot, lines 316-340: the scan (which keeps what it found
\* before an error at element n + 1) and the ranking
ScanAndRank ==
    /\ pc = "scan"
    /\ \E page \in Pages :
         \E n \in 0..Len(page) :
           /\ slots' = GetAvailableSlots(page, n)
           /\ scan_error' = (n < Len(page))
           /\ ranked' = IF slots' = << >> THEN << >>
                        ELSE Rank(slots', start_pref, end_pref, preferred_courts)
           /\ slot_idx' = 1
           /\ pc' = IF ranked' = << >> THEN "no_slots" ELSE "book"
           /\ reached' = IF ranked' = << >> THEN reached \cup {attempts} ELSE reached
           /\ none_returned' = IF ranked' = << >> THEN none_returned \cup {attempts}
                                ELSE none_returned
    /\ calls' = Append(calls, "get_available_slots")
    /\ UNCHANGED <<cfgVars, otherVars,
                   attempts, tried, login_success, retryVars, target_date, result,
                   run_result, browser_started, session_open, sessions, booked, exit_code,
                   notifications, should_book>>

\* what stops book_slot: the success message was found, it was not found in
\* time, or a click or a lookup raised
BookOutcomes == {"success", "no_success_message", "raises"}

\* book_slot: true for the success message; the missing message and every
\* exception (caught inside book_slot) give false
BookSlotReturns(o) == o = "success"

\* variant: the loop skips a slot
NextSlotSkips(i) == i + 2

\* the for loop of book_preferred_slot goes on to the next ranked slot
NextSlot(i) == i + 1

\* book_preferred_slot, lines 343-348: one turn of the loop; the slot gets the
\* target date, book_slot returns true or false and never raises
BookSlot ==
    /\ pc = "book"
    /\ slot_idx <= Len(ranked)
    /\ calls' = Append(calls, "book_slot")
    /\ ranked' = [ranked EXCEPT ![slot_idx].date = target_date]
    /\ \E o \in BookOutcomes :
         /\ tried' = Append(tried, [slot |-> ranked'[slot_idx], how |-> o,
                                    returned |-> BookSlotReturns(o)])
         /\ IF BookSlotReturns(o)
            THEN /\ booked' = Append(booked, ranked'[slot_idx])
                 /\ pc' = "booked"
                 /\ reached' = reached \cup {attempts}
                 /\ UNCHANGED <<slot_idx, none_returned>>
            ELSE /\ slot_idx' = NextSlot(slot_idx)
                 /\ pc' = IF slot_idx' > Len(ranked) THEN "no_slots" ELSE "book"
                 /\ reached' = IF slot_idx' > Len(ranked) THEN reached \cup {attempts}
                               ELSE reached
                 /\ none_returned' = IF slot_idx' > Len(ranked)
                                      THEN none_returned \cup {attempts}
                                      ELSE none_returned
                 /\ UNCHANGED booked
    /\ UNCHANGED <<cfgVars, otherVars,
                   attempts, retryVars, slots, login_success, scan_error, target_date, result,
                   run_result, browser_started, session_open, sessions, exit_code,
                   notifications, should_book>>

\* attempt_booking, lines 122-125: a slot was booked; what _notify_success
\* raised would be caught by `except Exception`
Booked ==
    /\ pc = "booked"
    /\ \E transport \in Transports, shot_ok \in BOOLEAN :
         IF has_notifier /\ Send(transport).raised
         THEN /\ calls' = calls \o <<"send">> \o Shot("screenshot_error")
              /\ EndAttempt(HandlerOutcome(Raised("send"), shot_ok), "close")
              /\ UNCHANGED notifications
         ELSE /\ calls' = calls \o (IF has_notifier THEN <<"send">> ELSE << >>)
              /\ notifications' = Notify("success", Send(transport).delivered)
              /\ EndAttempt(Returned(<<ranked[slot_idx]>>), "close")
    /\ UNCHANGED <<cfgVars, otherVars,
                   histVars, pageVars, target_date, result, run_result, browser_started,
                   session_open, sessions, booked, exit_code, should_book>>

\* attempt_booking, lines 126-129: book_preferred_slot returned None; an
\* exception of the no_slots screenshot is caught by `except Exception`, as one
\* of _notify_failure would be
NoSlots ==
    /\ pc = "no_slots"
    /\ \E shot_ok \in BOOLEAN, shot2_ok \in BOOLEAN, transport \in Transports :
         CASE ScreenshotFails(shot_ok) ->
                /\ calls' = calls \o <<"screenshot_no_slots", "screenshot_error">>
                /\ EndAttempt(HandlerOutcome(Raised("screenshot_no_slots"), shot2_ok), "close")
                /\ UNCHANGED notifications
           [] ~ScreenshotFails(shot_ok) /\ has_notifier /\ Send(transport).raised ->
                /\ calls' = calls \o Shot("screenshot_no_slots") \o <<"send">>
                                   \o Shot("screenshot_error")
                /\ EndAttempt(HandlerOutcome(Raised("send"), shot2_ok), "close")
                /\ UNCHANGED notifications
           [] OTHER ->
                /\ calls' = calls \o Shot("screenshot_no_slots")
                                   \o (IF has_notifier THEN <<"send">> ELSE << >>)
                /\ notifications' = Notify("failure", Send(transport).delivered)
                /\ EndAttempt(Returned(<< >>), "close")
    /\ UNCHANGED <<cfgVars, otherVars,
                   histVars, pageVars, target_date, result, run_result, browser_started,
                   session_open, sessions, booked, exit_code, should_book>>

\* the positions of an attempt at which it waits on the page or the notifier
AttemptSteps == {"login_navigate", "login", "navigate_to_tennis", "select_date", "scan",
                 "book", "booked", "no_slots"}

\* the task of the scheduled job is cancelled while the attempt waits:
\* CancelledError is not an Exception, so no handler of attempt_booking takes
\* it and it leaves through new_context's finally
Cancel ==
    /\ mode = "scheduled"
    /\ pc \in AttemptSteps
    /\ EndAttempt(Threw(Cancelled), "close")
    /\ UNCHANGED <<cfgVars, otherVars,
                   histVars, pageVars, target_date, result, run_result, browser_started,
                   session_open, sessions, calls, booked, exit_code, notifications,
                   should_book>>

\* variant: the context stays open
ContextCloseLeak ==
    /\ pc = "close"
    /\ pc' = "wrapper"
    /\ UNCHANGED <<cfgVars, otherVars,
                   histVars, retryVars, pageVars, target_date, result, run_result,
                   browser_started, session_open, sessions, calls, booked, exit_code,
                   notifications, should_book>>

\* new_context's finally: the context is closed as the attempt is left
ContextClose ==
    /\ pc = "close"
    /\ session_open' = FALSE
    /\ pc' = "wrapper"
    /\ UNCHANGED <<cfgVars, otherVars,
                   histVars, retryVars, pageVars, target_date, result, run_result,
                   browser_started, sessions, calls, booked, exit_code, notifications,
                   should_book>>

----------------------------------------------------------------------------
(* The callers of attempt_booking *)

\* variant: everything but a booked slot makes the caller send a failure message
CaughtUnlessBooked(res) == ~(res.kind = "result" /\ res.value # << >>)

\* `except BookingError` of run_scheduled_booking
CaughtByCaller(res) == res.kind = "exception" /\ res.exc.type = "BookingError"

\* run_scheduled_booking, lines 210-214: BookingError becomes a failure
\* notification and None; anything else goes through
ScheduledCaller ==
    /\ pc = "caller"
    /\ mode = "scheduled"
    /\ IF CaughtByCaller(result)
       THEN \E transport \in Transports :
              IF has_notifier /\ Send(transport).raised
              THEN /\ run_result' = Threw(Raised("send"))
                   /\ UNCHANGED notifications
              ELSE /\ notifications' = Notify("failure", Send(transport).delivered)
                   /\ run_result' = Returned(<< >>)
       ELSE /\ run_result' = result
            /\ UNCHANGED notifications
    /\ pc' = "stop"
    /\ UNCHANGED <<cfgVars, otherVars,
                   histVars, retryVars, pageVars, target_date, result, browser_started,
                   session_open, sessions, calls, booked, exit_code, should_book>>

\* run_once.run_booking, lines 79-90, and main, line 119: True for a slot,
\* False for None or any exception; exit code 0 for True, 1 for False
OneShotCaller ==
    /\ pc = "caller"
    /\ mode = "one_shot"
    /\ run_result' = result
    /\ exit_code' = ExitCode(result.kind = "result" /\ result.value # << >>)
    /\ pc' = "stop"
    /\ UNCHANGED <<cfgVars, otherVars,
                   histVars, retryVars, pageVars, target_date, result, browser_started,
                   session_open, sessions, calls, booked, notifications, should_book>>

\* the end of `async with bot`: BrowserManager.stop()
BotStop ==
    /\ pc = "stop"
    /\ browser_started' = FALSE
    /\ pc' = "done"
    /\ UNCHANGED <<cfgVars, otherVars,
                   histVars, retryVars, pageVars, target_date, result, run_result,
                   session_open, sessions, calls, booked, exit_code, notifications,
                   should_book>>

Next ==
    \/ SettingsLoadFails
    \/ BotStart
    \/ RunScheduledBooking
    \/ BeginAttempt
    \/ WrapperReturn
    \/ WrapperStop
    \/ WrapperSleep
    \/ SleepDone
    \/ NewPage
    \/ NewContextFails
    \/ ContextNewPageFails
    \/ LoginNavigate
    \/ Login
    \/ NavigateToTennis
    \/ SelectDate
    \/ ScanAndRank
    \/ BookSlot
    \/ Booked
    \/ NoSlots
    \/ Cancel
    \/ ContextClose
    \/ ScheduledCaller
    \/ OneShotCaller
    \/ BotStop

Spec == Init /\ [][Next]_vars

----------------------------------------------------------------------------
(* The ranking on its own: book_preferred_slot from line 318 to line 340, *)
(* applied to every slot list get_available_slots may hand it             *)

RankCourts == {"CourtA", "CourtB"}
RankTimes == {Time(7, 0), Time(8, 0), Time(9, 0), Time(11, 0), Time(11, 30)}

SlotShapes == [court : RankCourts \cup {"CourtC"}, start_time : RankTimes,
               available : BOOLEAN]

\* BookingSlot objects in scan order; the selector names the position in the scan
MakeSlots(shapes) ==
    [i \in 1..Len(shapes) |->
        [court |-> shapes[i].court,
         date |-> FirstDay,
         start_time |-> shapes[i].start_time,
         end_time |-> shapes[i].start_time + 60,
         available |-> shapes[i].available,
         element_selector |-> i]]

InitRank ==
    /\ mode = "one_shot"
    /\ screenshot_on_error = FALSE
    /\ has_notifier = FALSE
    /\ today = FirstDay
    /\ advance_booking_days = 7
    /\ preferred_days = DefaultDays
    /\ preferred_courts \in SeqsUpTo(RankCourts, MaxCourts)
    /\ start_pref = Time(8, 0)
    /\ end_pref = Time(11, 0)
    /\ retry_count = 3
    /\ settings_ok = TRUE
    /\ pc = "scanned"
    /\ slots \in {MakeSlots(shapes) : shapes \in SeqsUpTo(SlotShapes, MaxSlots)}
    /\ target_date = 0
    /\ Untouched
    /\ slot_elements = << >>
    /\ DateUntouched
    /\ SchedUntouched
    /\ ManagerUntouched

\* lines 318-340: nothing to attempt for an empty scan, else the ranking
RankSlots ==
    /\ pc = "scanned"
    /\ ranked' = IF slots = << >> THEN << >>
                 ELSE Rank(slots, start_pref, end_pref, preferred_courts)
    /\ pc' = "ranked"
    /\ UNCHANGED <<cfgVars, otherVars,
                   histVars, retryVars, slots, slot_idx, tried, login_success, scan_error,
                   target_date, result,
                   run_result, browser_started, session_open, sessions, calls, booked,
                   exit_code, notifications, should_book>>

NextRank == RankSlots

SpecRank == InitRank /\ [][NextRank]_vars

----------------------------------------------------------------------------
(* should_book_today on its own *)

\* the lists of preferred days: every subset of the week, in week order
DayLists == {SelectSeq(DayNames, LAMBDA d : d \in S) : S \in SUBSET Range(DayNames)}

InitDay ==
    /\ mode = "scheduled"
    /\ screenshot_on_error = FALSE
    /\ has_notifier = FALSE
    /\ today \in FirstDay..(FirstDay + MaxDays - 1)
    /\ advance_booking_days \in 0..MaxAdvance
    /\ preferred_days \in DayLists
    /\ preferred_courts = DefaultCourts
    /\ start_pref = Time(8, 0)
    /\ end_pref = Time(11, 0)
    /\ retry_count = 3
    /\ settings_ok = TRUE
    /\ pc = "day"
    /\ slots = << >>
    /\ target_date = 0
    /\ Untouched
    /\ slot_elements = << >>
    /\ DateUntouched
    /\ SchedUntouched
    /\ ManagerUntouched

\* should_book_today()
ShouldBook ==
    /\ pc = "day"
    /\ should_book' = ShouldBookToday(today, advance_booking_days, preferred_days)
    /\ pc' = "decided"
    /\ UNCHANGED <<cfgVars, otherVars,
                   histVars, retryVars, pageVars, target_date, result,
                   run_result, browser_started, session_open, sessions, calls, booked,
                   exit_code, notifications>>

NextDay == ShouldBook

SpecDay == InitDay /\ [][NextDay]_vars

----------------------------------------------------------------------------
(* select_date on its own, step by step *)

\* variant: one day more
DaysAheadPlusOne(target, day) == target - day + 1

\* days_ahead = (target_date - today).days
DaysAhead(target, day) == target - day

InitDate ==
    /\ mode = "one_shot"
    /\ screenshot_on_error = FALSE
    /\ has_notifier = FALSE
    /\ today \in {FirstDay, FirstDay + 5}
    /\ advance_booking_days = 7
    /\ preferred_days = DefaultDays
    /\ preferred_courts = DefaultCourts
    /\ start_pref = Time(8, 0)
    /\ end_pref = Time(11, 0)
    /\ retry_count = 3
    /\ settings_ok = TRUE
    /\ pc = "date_picker"
    /\ slots = << >>
    /\ target_date \in (today - 1)..(today + MaxAhead)
    /\ Untouched
    /\ slot_elements = << >>
    /\ DateUntouched
    /\ SchedUntouched
    /\ ManagerUntouched

\* what select_date leaves alone
DateFrame ==
    UNCHANGED <<cfgVars, histVars, retryVars, pageVars, slot_elements, schedVars, managerVars,
                target_date,
                result, run_result, browser_started, session_open, sessions, calls, booked,
                exit_code, notifications, should_book>>

\* lines 140-141 and 148: _find_element("date_picker") returns the element or
\* raises TimeoutError, which select_date catches; without a date picker the
\* next buttons are used when the target date is ahead
FindDatePicker ==
    /\ pc = "date_picker"
    /\ \E found \in BOOLEAN :
         /\ date_picker' = IF found THEN "found" ELSE "timeout"
         /\ pc' = IF found THEN "fill"
                  ELSE IF DaysAhead(target_date, today) > 0 THEN "next_button"
                  ELSE "date_returned"
    /\ UNCHANGED <<date_filled, next_found, next_clicks>>
    /\ DateFrame

\* lines 144-147: date_picker.fill(date_str) and return; what fill raises is
\* not the builtin TimeoutError and leaves select_date
FillDate ==
    /\ pc = "fill"
    /\ \E ok \in BOOLEAN :
         /\ date_filled' = ok
         /\ pc' = IF ok THEN "date_returned" ELSE "date_raised"
    /\ UNCHANGED <<date_picker, next_found, next_clicks>>
    /\ DateFrame

\* lines 158-159 and 162: _find_element("next_date_button") returns the
\* button or raises TimeoutError, which ends the loop and select_date
FindNextButton ==
    /\ pc = "next_button"
    /\ \E found \in BOOLEAN :
         /\ next_found' = IF found THEN next_found + 1 ELSE next_found
         /\ pc' = IF found THEN "click" ELSE "date_returned"
    /\ UNCHANGED <<date_picker, date_filled, next_clicks>>
    /\ DateFrame

\* lines 160-161: next_button.click(); what click raises leaves select_date;
\* after days_ahead clicks the loop is over
ClickNext ==
    /\ pc = "click"
    /\ next_clicks' = next_clicks + 1
    /\ \E ok \in BOOLEAN :
         pc' = IF ~ok THEN "date_raised"
               ELSE IF next_clicks' < DaysAhead(target_date, today) THEN "next_button"
               ELSE "date_returned"
    /\ UNCHANGED <<date_picker, date_filled, next_found>>
    /\ DateFrame

NextDate ==
    \/ FindDatePicker
    \/ FillDate
    \/ FindNextButton
    \/ ClickNext

SpecDate == InitDate /\ [][NextDate]_vars

----------------------------------------------------------------------------
(* The run under every configured retry_count *)

\* as Init, with settings.scheduler.retry_count (ge=1) as configured, the
\* screenshots and the notifier off, on a Saturday
InitRetry ==
    /\ mode \in {"scheduled", "one_shot"}
    /\ screenshot_on_error = FALSE
    /\ has_notifier = FALSE
    /\ today = FirstDay + 5
    /\ advance_booking_days = 7
    /\ preferred_days = DefaultDays
    /\ preferred_courts = DefaultCourts
    /\ start_pref = Time(8, 0)
    /\ end_pref = Time(11, 0)
    /\ retry_count \in 1..MaxRetryCount
    /\ settings_ok \in BOOLEAN
    /\ pc = "idle"
    /\ slots = << >>
    /\ target_date = 0
    /\ Untouched
    /\ slot_elements = << >>
    /\ DateUntouched
    /\ SchedUntouched
    /\ ManagerUntouched

SpecRetry == InitRetry /\ [][Next]_vars

----------------------------------------------------------------------------
(* get_available_slots on its own, on pages of every kind of slot element *)

\* the texts a slot element may show: what the time pattern finds in them
ScanTexts ==
    { Match(9, 0, ""), Match(22, 30, ""), Match(23, 0, ""), Match(11, 0, "PM"),
      Match(12, 0, "AM"), Match(12, 0, "PM"), Match(13, 0, "PM"), Match(9, 60, ""),
      [matched |-> TRUE, hour |-> 8, has_minute |-> FALSE, minute |-> 0, am_pm |-> "AM"],
      NoMatch }

\* an element by its class (does it contain "available"; does it contain one
\* of "booked", "disabled", "unavailable") and its text
ScanElements == [available : BOOLEAN, blocked : BOOLEAN, text : ScanTexts]

InitScan ==
    /\ mode = "one_shot"
    /\ screenshot_on_error = FALSE
    /\ has_notifier = FALSE
    /\ today = FirstDay
    /\ advance_booking_days = 7
    /\ preferred_days = DefaultDays
    /\ preferred_courts = DefaultCourts
    /\ start_pref = Time(8, 0)
    /\ end_pref = Time(11, 0)
    /\ retry_count = 3
    /\ settings_ok = TRUE
    /\ pc = "scan_start"
    /\ slots = << >>
    /\ target_date = 0
    /\ Untouched
    /\ slot_elements \in SeqsUpTo(ScanElements, MaxElements)
    /\ DateUntouched
    /\ SchedUntouched
    /\ ManagerUntouched

\* get_available_slots: the loop over the elements, left at element n + 1 when
\* something raises there; the slots found so far are returned
ScanPage ==
    /\ pc = "scan_start"
    /\ \E n \in 0..Len(slot_elements) :
         /\ slots' = GetAvailableSlots(slot_elements, n)
         /\ scan_error' = (n < Len(slot_elements))
    /\ pc' = "scan_done"
    /\ UNCHANGED <<cfgVars, otherVars,
                   histVars, retryVars, ranked, slot_idx, tried, login_success, target_date,
                   result, run_result, browser_started, session_open, sessions, calls, booked,
                   exit_code, notifications, should_book>>

NextScan == ScanPage

SpecScan == InitScan /\ [][NextScan]_vars

----------------------------------------------------------------------------
(* The scheduler of main.py and the runs of the booking job *)

\* variant: two running instances allowed
MaxInstancesTwo == 1 + 1

\* add_job is called without max_instances: the scheduler's default, one
\* running instance per job
MaxInstances == 1

InitSched ==
    /\ mode = "scheduled"
    /\ screenshot_on_error \in BOOLEAN
    /\ has_notifier \in BOOLEAN
    /\ today = FirstDay + 5
    /\ advance_booking_days = 7
    /\ preferred_days = DefaultDays
    /\ preferred_courts = DefaultCourts
    /\ start_pref = Time(8, 0)
    /\ end_pref = Time(11, 0)
    /\ retry_count = 3
    /\ settings_ok = TRUE
    /\ pc = "scheduler"
    /\ slots = << >>
    /\ target_date = 0
    /\ Untouched
    /\ slot_elements = << >>
    /\ DateUntouched
    /\ SchedUntouched
    /\ ManagerUntouched

\* what the scheduler and the job runs leave alone
SchedFrame ==
    UNCHANGED <<cfgVars, histVars, retryVars, pageVars, slot_elements, dateVars, managerVars, pc,
                target_date, result, run_result, session_open, sessions, calls, booked,
                exit_code, notifications, should_book>>

\* the cron trigger fires: the run is submitted, unless the job already has
\* max_instances running instances, in which case this run is skipped
TriggerFires ==
    /\ fired < MaxTriggers
    /\ fired' = fired + 1
    /\ IF instances >= MaxInstances
       THEN /\ skipped' = skipped \cup {fired'}
            /\ job' = Append(job, "skipped")
            /\ UNCHANGED instances
       ELSE /\ instances' = instances + 1
            /\ job' = Append(job, "submitted")
            /\ UNCHANGED skipped
    /\ UNCHANGED <<bot_users, browser_started>>
    /\ SchedFrame

\* _booking_job, lines 68-71: the bot is made if there is none yet, and
\* `async with self.bot` starts the browser
JobEnter(k) ==
    /\ k \in 1..Len(job)
    /\ job[k] = "submitted"
    /\ job' = [job EXCEPT ![k] = "entered"]
    /\ bot_users' = bot_users \cup {k}
    /\ browser_started' = TRUE
    /\ UNCHANGED <<instances, fired, skipped>>
    /\ SchedFrame

\* _booking_job, line 72: run_scheduled_booking runs and returns or raises
JobRun(k) ==
    /\ k \in 1..Len(job)
    /\ job[k] = "entered"
    /\ job' = [job EXCEPT ![k] = "ran"]
    /\ UNCHANGED <<instances, fired, skipped, bot_users, browser_started>>
    /\ SchedFrame

\* the end of `async with self.bot`: the browser is stopped, the run is over
\* and the scheduler counts one running instance less
JobExit(k) ==
    /\ k \in 1..Len(job)
    /\ job[k] = "ran"
    /\ job' = [job EXCEPT ![k] = "finished"]
    /\ bot_users' = bot_users \ {k}
    /\ browser_started' = FALSE
    /\ instances' = instances - 1
    /\ UNCHANGED <<fired, skipped>>
    /\ SchedFrame

NextSched ==
    \/ TriggerFires
    \/ \E k \in 1..MaxTriggers : JobEnter(k)
    \/ \E k \in 1..MaxTriggers : JobRun(k)
    \/ \E k \in 1..MaxTriggers : JobExit(k)

SpecSched == InitSched /\ [][NextSched]_vars

----------------------------------------------------------------------------
(* The BrowserManager on its own, under every sequence of calls *)

\* variant: no look at the browser before a context is made
BrowserReadyAlways(started) == TRUE

\* `if not self._browser: raise RuntimeError(...)` of new_context
BrowserReady(started) == started

InitManager ==
    /\ mode = "one_shot"
    /\ screenshot_on_error = FALSE
    /\ has_notifier = FALSE
    /\ today = FirstDay
    /\ advance_booking_days = 7
    /\ preferred_days = DefaultDays
    /\ preferred_courts = DefaultCourts
    /\ start_pref = Time(8, 0)
    /\ end_pref = Time(11, 0)
    /\ retry_count = 3
    /\ settings_ok = TRUE
    /\ pc = "manager"
    /\ slots = << >>
    /\ target_date = 0
    /\ Untouched
    /\ slot_elements = << >>
    /\ DateUntouched
    /\ SchedUntouched
    /\ ManagerUntouched

\* what the calls on the manager leave alone
ManagerFrame ==
    UNCHANGED <<cfgVars, histVars, retryVars, pageVars, slot_elements, dateVars, schedVars, pc,
                target_date, result, run_result, calls, booked, exit_code, notifications,
                should_book>>

\* one call in the log: what was called, what it raised, and the browser and
\* the number of contexts made, before and after
Logged(op, raised) ==
    Append(manager_log, [op |-> op, raised |-> raised,
                         started_before |-> browser_started,
                         started_after |-> browser_started',
                         contexts_before |-> sessions,
                         contexts_after |-> sessions'])

\* start(): Playwright is started, then the browser is launched; either may raise
ManagerStart ==
    /\ Len(manager_log) < MaxOps
    /\ \E r \in {"ok", "playwright_raises", "launch_raises"} :
         /\ playwright_started' = IF r = "playwright_raises" THEN playwright_started ELSE TRUE
         /\ browser_started' = IF r = "ok" THEN TRUE ELSE browser_started
         /\ UNCHANGED <<session_open, sessions>>
         /\ manager_log' = Logged("start", IF r = "ok" THEN "none" ELSE "Exception")
    /\ ManagerFrame

\* stop(): the browser is closed and forgotten if there is one, then
\* Playwright is stopped and forgotten if it is there; close() or stop() may
\* raise, which leaves what was not yet forgotten
ManagerStop ==
    /\ Len(manager_log) < MaxOps
    /\ \E r \in {"ok", "close_raises", "playwright_stop_raises"} :
         /\ r = "close_raises" => browser_started
         /\ r = "playwright_stop_raises" => playwright_started
         /\ browser_started' = IF r = "close_raises" THEN browser_started ELSE FALSE
         /\ playwright_started' = IF r = "ok" THEN FALSE ELSE playwright_started
         /\ session_open' = IF r = "close_raises" THEN session_open ELSE FALSE
         /\ UNCHANGED sessions
         /\ manager_log' = Logged("stop", IF r = "ok" THEN "none" ELSE "Exception")
    /\ ManagerFrame

\* new_context() / new_page() entered: RuntimeError without a browser, else the
\* browser makes a context, or raises
ManagerNewContext ==
    /\ Len(manager_log) < MaxOps
    /\ ~session_open
    /\ UNCHANGED <<browser_started, playwright_started>>
    /\ IF ~BrowserReady(browser_started)
       THEN /\ UNCHANGED <<session_open, sessions>>
            /\ manager_log' = Logged("new_context", "RuntimeError")
       ELSE \E ok \in BOOLEAN :
              /\ session_open' = ok
              /\ sessions' = IF ok THEN sessions + 1 ELSE sessions
              /\ manager_log' = Logged("new_context", IF ok THEN "none" ELSE "Exception")
    /\ ManagerFrame

\* the `async with` of new_context is left: the finally closes the context
ManagerContextExit ==
    /\ Len(manager_log) < MaxOps
    /\ session_open
    /\ session_open' = FALSE
    /\ UNCHANGED <<browser_started, playwright_started, sessions>>
    /\ manager_log' = Logged("context_exit", "none")
    /\ ManagerFrame

NextManager ==
    \/ ManagerStart
    \/ ManagerStop
    \/ ManagerNewContext
    \/ ManagerContextExit

SpecManager == InitManager /\ [][NextManager]_vars

----------------------------------------------------------------------------
(* The retry wrapper: C1 - C4 *)

\* the retry wrapper has returned or raised to the caller of attempt_booking
WrapperDone == pc \in {"caller", "stop", "done"} /\ attempts >= 1

\* an attempt that ended in Failed: it raised BookingError
IsFailed(o) == o.kind = "exception" /\ o.exc.type = "BookingError"

\* an attempt that ended in Succeeded: it returned a booked slot
IsSucceeded(o) == o.kind = "result" /\ o.value # << >>

\* C1: once a call of the attempt function has reached NoSlotsFound
\* (book_preferred_slot returned None) or Succeeded (a slot was booked), no
\* further call of the attempt function is started in the run.
C1_NoAttemptAfterNoSlotsOrSuccess == \A i \in reached : attempts = i

\* C2: when every attempt ended in Failed, the wrapper has called the attempt
\* function exactly 3 times and raises the BookingError of the third attempt;
\* it never calls it more than 3 times.
C2_ExhaustedRaisesLast ==
    /\ attempts <= 3
    /\ (WrapperDone /\ \A i \in 1..Len(outcomes) : IsFailed(outcomes[i])) =>
          /\ attempts = 3
          /\ Len(outcomes) = 3
          /\ result.kind = "exception"
          /\ result.exc = outcomes[3].exc
          /\ result.exc.type = "BookingError"
          /\ result.exc.attempt = 3

C2_Witness ==
    /\ pc = "caller"
    /\ attempts = 3
    /\ \A i \in 1..3 : IsFailed(outcomes[i])
    /\ result.exc.attempt = 3
    /\ outcomes[1].exc # outcomes[3].exc

\* the attempt failed twice with BookingError and then booked a slot
FailedTwiceThenSucceeded ==
    /\ WrapperDone
    /\ Len(outcomes) = 3
    /\ IsFailed(outcomes[1])
    /\ IsFailed(outcomes[2])
    /\ IsSucceeded(outcomes[3])

\* after two failed attempts the wrapper goes on to a third
ThirdAttemptFollows ==
    (Len(outcomes) = 2 /\ IsFailed(outcomes[1]) /\ IsFailed(outcomes[2])) => ~WrapperDone

----------------------------------------------------------------------------
(* The ranking: C5 - C9 *)

StartInWindow(s) == start_pref <= s.start_time /\ s.start_time <= end_pref

\* C5: the slots book_preferred_slot goes on to attempt contain no slot with
\* available = false, whichever branch chose them.
C5_RankedAllAvailable ==
    pc = "ranked" => \A i \in 1..Len(ranked) : ranked[i].available

C5_Witness ==
    /\ pc = "ranked"
    /\ ranked # << >>
    /\ \E i \in 1..Len(slots) : ~slots[i].available /\ StartInWindow(slots[i])
    /\ \A i \in 1..Len(ranked) : ~StartInWindow(ranked[i])

C7_FallbackAllAvailable ==
    (pc = "ranked" /\ \A i \in 1..Len(slots) : ~(slots[i].available /\ StartInWindow(slots[i]))) =>
        /\ Range(ranked) = {s \in Range(slots) : s.available}
        /\ Len(ranked) = Cardinality({s \in Range(slots) : s.available})

\* scenario B: a single available 07:00 slot, window [08:00, 11:00], no priority
C7_Witness ==
    /\ pc = "ranked"
    /\ preferred_courts = << >>
    /\ Len(slots) = 1
    /\ slots[1].court = "CourtA" /\ slots[1].start_time = Time(7, 0) /\ slots[1].available
    /\ ranked = slots

NoDuplicates(courts) == \A i, j \in 1..Len(courts) : courts[i] = courts[j] => i = j

Listed(court) == \E k \in 1..Len(preferred_courts) : preferred_courts[k] = court

ListIndex(court) == CHOOSE k \in 1..Len(preferred_courts) : preferred_courts[k] = court

\* C8: in the result, a slot whose court is absent from the priority list is
\* never before a slot whose court is in it, and slots of listed courts are in
\* the order of their courts' indexes in the list (a list that names each
\* court once).
C8_OrderedByCourtPriority ==
    pc = "ranked" =>
        \A i, j \in 1..Len(ranked) :
            i < j =>
                /\ Listed(ranked[j].court) => Listed(ranked[i].court)
                /\ (NoDuplicates(preferred_courts) /\ Listed(ranked[j].court)) =>
                       ListIndex(ranked[i].court) <= ListIndex(ranked[j].court)

\* scenario A: [CourtA 09:00, CourtB 08:00], priority [CourtB, CourtA]
C8_Witness ==
    /\ pc = "ranked"
    /\ preferred_courts = <<"CourtB", "CourtA">>
    /\ Len(slots) = 2
    /\ slots[1].court = "CourtA" /\ slots[1].start_time = Time(9, 0)
    /\ slots[2].court = "CourtB" /\ slots[2].start_time = Time(8, 0)
    /\ ranked = <<slots[2], slots[1]>>

\* C9: two slots of equal court priority (the same court, or two courts absent
\* from the priority list) are in the result in the order of the scan.
C9_StableOrder ==
    pc = "ranked" =>
        \A i, j \in 1..Len(ranked) :
            (/\ i < j
             /\ \/ ranked[i].court = ranked[j].court
                \/ (~Listed(ranked[i].court) /\ ~Listed(ranked[j].court)))
            => ranked[i].element_selector < ranked[j].element_selector

C9_Witness ==
    /\ pc = "ranked"
    /\ Len(ranked) = 2
    /\ ranked[1].court = "CourtC" /\ ranked[2].court = "CourtB"
    /\ ~Listed("CourtB")
    /\ preferred_courts # << >>

----------------------------------------------------------------------------
(* The daily decision: C10 *)

\* the name of the day d, counted from Monday 2024-06-03 (ordinal 739040)
NameFromMonday(d) == DayNames[((d - 739040) % 7) + 1]

\* C10: should_book_today is true exactly when the weekday of
\* today + advance_booking_days is one of the preferred weekdays; for Monday
\* 2024-06-03, 7 days ahead and {saturday, sunday} it is false.
C10_TargetWeekdayPreferred ==
    pc = "decided" =>
        /\ should_book <=>
              (\E k \in 1..Len(preferred_days) :
                   preferred_days[k] = NameFromMonday(today + advance_booking_days))
        /\ (today = 739040 /\ advance_booking_days = 7
               /\ preferred_days = <<"saturday", "sunday">>) => ~should_book

C10_Witness ==
    /\ pc = "decided"
    /\ today = 739040
    /\ advance_booking_days = 7
    /\ preferred_days = <<"saturday", "sunday">>
    /\ ~should_book

----------------------------------------------------------------------------
(* The attempt and its callers: C11 - C20 *)

\* the weekday of the date the scheduled run would book is a preferred one
TargetDayPreferred ==
    \E k \in 1..Len(preferred_days) :
        preferred_days[k] = NameFromMonday(today + advance_booking_days)

\* C11: run_scheduled_booking starts a booking attempt only when
\* should_book_today is true; when it is false the run returns None and has
\* opened no browser session, called no collaborator and sent no notification.
C11_NoAttemptUnlessShouldBook ==
    mode = "scheduled" =>
        /\ attempts >= 1 => TargetDayPreferred
        /\ (settings_ok /\ pc \in {"stop", "done"} /\ ~TargetDayPreferred) =>
              /\ run_result = Returned(<< >>)
              /\ attempts = 0
              /\ outcomes = << >>
              /\ sessions = 0
              /\ ~session_open
              /\ calls = << >>
              /\ tried = << >>
              /\ notifications = << >>

C11_Witness ==
    /\ mode = "scheduled"
    /\ pc = "done"
    /\ ~should_book
    /\ ~TargetDayPreferred
    /\ run_result = Returned(<< >>)

\* C12: every browser session opened by an attempt is closed when the attempt
\* ends, on every exit path (booked slot, no slots, login failure, an
\* exception of a collaborator, cancellation): a session is open only while
\* the attempt is in its body or on its way out through new_context's
\* finally, and once the attempt's outcome is with the retry wrapper, and
\* from then on, no session is open.
C12_SessionClosedWhenAttemptEnds ==
    /\ pc \notin (AttemptSteps \cup {"close"}) => ~session_open
    /\ (pc \in AttemptSteps \/ (pc = "close" /\ sessions = attempts)) => session_open
    /\ (Len(outcomes) = attempts /\ pc # "close") => ~session_open

\* a first attempt ended by a failed login, a second one by cancellation, and
\* both sessions are closed
C12_Witness ==
    /\ pc = "wrapper"
    /\ attempts = 2
    /\ sessions = 2
    /\ Len(outcomes) = 2
    /\ IsFailed(outcomes[1])
    /\ outcomes[2].exc.type = "CancelledError"
    /\ ~session_open

\* the k-th attempt works in the k-th session of the run, no session is open
\* during the backoff wait nor when the next one is about to be created
SessionOfAttempt ==
    /\ pc \in AttemptSteps => (session_open /\ sessions = attempts)
    /\ pc \in {"wrapper", "sleep", "new_page"} => ~session_open
    /\ sessions <= attempts

\* a session is created only while none is open, and it is a new one
SessionCreated ==
    sessions' # sessions => (~session_open /\ session_open' /\ sessions' = sessions + 1
                             /\ sessions' = attempts)

\* C13: each attempt of the retry wrapper runs in a newly created browser
\* session used by no other attempt; the session of attempt k is closed before
\* the backoff wait and before the session of attempt k+1 is opened, so at
\* most one session is open at any time of a run.
C13_OneFreshSessionPerAttempt == [](SessionOfAttempt) /\ [][SessionCreated]_vars

\* the second attempt at work in the second session, after one backoff wait
C13_Witness ==
    /\ pc = "login"
    /\ attempts = 2
    /\ sessions = 2
    /\ session_open
    /\ Len(delays) = 1

\* the ranking of the scanned slots, as the attempt's ranked list had it before
\* the loop stamped dates on it
RankedAtScan == Rank(slots, start_pref, end_pref, preferred_courts)

\* C14: book_preferred_slot calls book_slot on the ranked slots strictly in
\* ranked order; a slot whose book_slot fails (false, or an exception inside
\* the booking action) does not abort the attempt and the next ranked slot is
\* tried; the attempt returns the first slot whose book_slot returned true,
\* with the target date as its date, and no slot ranked after it is attempted.
C14_BookSlotInRankedOrder ==
    /\ Len(tried) <= Len(ranked)
    /\ \A k \in 1..Len(tried) :
          /\ tried[k].slot = ranked[k]
          /\ tried[k].slot.element_selector = RankedAtScan[k].element_selector
          /\ tried[k].slot.date = target_date
          /\ k < Len(tried) => ~tried[k].returned
    /\ pc = "book" =>
          /\ Len(tried) = slot_idx - 1
          /\ \A k \in 1..Len(tried) : ~tried[k].returned
    /\ pc = "no_slots" =>
          /\ Len(tried) = Len(ranked)
          /\ \A k \in 1..Len(tried) : ~tried[k].returned
    /\ pc = "booked" => (tried # << >> /\ tried[Len(tried)].returned)
    /\ IsSucceeded(outcome) =>
          /\ tried # << >>
          /\ tried[Len(tried)].returned
          /\ outcome.value = <<tried[Len(tried)].slot>>
          /\ outcome.value[1].date = target_date
          /\ \A k \in 1..Len(ranked) : k > Len(tried) => ranked[k].date # target_date

\* book_slot raised inside its booking action for the first ranked slot, the
\* second one was booked and is what the attempt returned
C14_Witness ==
    /\ pc = "wrapper"
    /\ Len(ranked) = 2
    /\ Len(tried) = 2
    /\ tried[1].how = "raises"
    /\ ~tried[1].returned
    /\ tried[2].returned
    /\ outcome = Returned(<<ranked[2]>>)
    /\ ranked[2].date = target_date

\* C15: when the scanned or the ranked slot list is empty, or book_slot fails
\* for every ranked slot (book_preferred_slot returns None), the attempt ends
\* in NoSlotsFound: attempt_booking returns None and raises no BookingError
\* (an attempt cancelled from outside is left aside).
C15_NoSlotsReturnsNone ==
    \A i \in none_returned :
        i <= Len(outcomes) =>
            \/ outcomes[i] = Returned(<< >>)
            \/ outcomes[i].exc.type = "CancelledError"

\* the calls an attempt makes after a login that succeeded
AfterLoginCalls == {"navigate_to_tennis", "select_date", "get_available_slots", "book_slot"}

\* the attempt ended in Failed because of the login: BookingError("Login
\* failed"), or BookingError raised from the exception login threw
FailedByLogin(o) ==
    /\ IsFailed(o)
    /\ o.exc.msg = "Login failed" \/ o.exc.cause = "login"

\* C16: when login fails in an attempt, by returning false or by throwing, the
\* attempt goes directly to Failed with the login failure as its reason, after
\* the diagnostic screenshot when screenshots are enabled, and makes no
\* navigation, date selection, scan or book_slot call.
C16_LoginFailureFailsAttempt ==
    (login_success \in {"false", "raises"} /\ outcome.kind # "none") =>
        /\ FailedByLogin(outcome)
        /\ screenshot_on_error =>
              \E k \in 1..Len(calls) :
                  calls[k] \in {"screenshot_login_failed", "screenshot_error"}
        /\ Range(calls) \cap AfterLoginCalls = {}
        /\ tried = << >>

\* C17: an exception raised at any state of an attempt outside the per-slot
\* booking loop (session creation, login page navigation, login, navigation
\* to the tennis section, date selection, slot scan) ends the attempt in
\* Failed, a BookingError that carries the exception as its cause; no other
\* exception type leaves attempt_booking (a cancellation from outside is left
\* aside).
C17_OnlyBookingErrorEscapes ==
    \A i \in 1..Len(outcomes) :
        outcomes[i].kind = "exception" =>
            \/ outcomes[i].exc.type = "CancelledError"
            \/ /\ outcomes[i].exc.type = "BookingError"
               /\ outcomes[i].exc.msg = "Booking failed" => outcomes[i].exc.cause # ""

\* the exceptions that come from a screenshot call, by the name of the screenshot
ScreenshotOrigins == {"screenshot_login_failed", "screenshot_no_slots", "screenshot_error"}

\* C18: screenshot capture is best-effort: a screenshot call that fails leaves
\* the attempt's outcome and failure reason as they would be had it succeeded,
\* so no attempt ends with the exception of a screenshot, nor with a
\* BookingError raised from one.
C18_ScreenshotNeverDecidesOutcome ==
    \A i \in 1..Len(outcomes) :
        outcomes[i].kind = "exception" =>
            /\ outcomes[i].exc.msg \notin ScreenshotOrigins
            /\ outcomes[i].exc.cause \notin ScreenshotOrigins

\* the outcome does not come from an exception of the notifier
NotFromSend(o) == o.exc.msg # "send" /\ o.exc.cause # "send"

\* C19: a failing notification never changes the booking outcome: send returns
\* false instead of raising for every transport or API failure, so no attempt
\* and no run ends with an exception of send; an attempt whose book_slot
\* returned true returns that slot, and run_scheduled_booking returns None
\* after a BookingError, whether the notification was delivered or not.
C19_NotificationNeverChangesOutcome ==
    /\ \A i \in 1..Len(outcomes) : NotFromSend(outcomes[i])
    /\ NotFromSend(result) /\ NotFromSend(run_result)
    /\ \A i \in reached \ none_returned :
          i <= Len(outcomes) =>
              \/ IsSucceeded(outcomes[i]) /\ outcomes[i].value[1] \in Range(booked)
              \/ outcomes[i].exc.type = "CancelledError"
    /\ \A n \in 1..Len(notifications) :
          (notifications[n].kind = "success" /\ notifications[n].attempt <= Len(outcomes))
              => IsSucceeded(outcomes[notifications[n].attempt])
    /\ (mode = "scheduled" /\ pc \in {"stop", "done"} /\ IsFailed(result))
          => run_result = Returned(<< >>)
    /\ (pc \in {"stop", "done"} /\ IsSucceeded(result)) => run_result = result

\* a run that booked a slot and whose success notification was not delivered
C19_Witness ==
    /\ pc = "done"
    /\ mode = "scheduled"
    /\ IsSucceeded(run_result)
    /\ \E n \in 1..Len(notifications) :
          notifications[n].kind = "success" /\ ~notifications[n].delivered

\* C20: when an attempt ends in NoSlotsFound (attempt_booking returns None)
\* and a notifier is configured, a failure notification was sent for that
\* attempt, and the attempt is not retried: it is the last one of the run and
\* no backoff wait follows it.
C20_NoSlotsNotifiedNotRetried ==
    \A i \in 1..Len(outcomes) :
        outcomes[i] = Returned(<< >>) =>
            /\ i \in none_returned
            /\ has_notifier =>
                  \E n \in 1..Len(notifications) :
                      /\ notifications[n].kind = "failure"
                      /\ notifications[n].attempt = i
            /\ attempts = i
            /\ Len(outcomes) = i
            /\ Len(delays) = i - 1
            /\ pc \notin (AttemptSteps \cup {"sleep", "new_page"})

\* a second attempt ended in NoSlotsFound after every ranked slot failed; its
\* failure notification was sent and the run is over after two attempts
C20_Witness ==
    /\ pc = "done"
    /\ has_notifier
    /\ attempts = 2
    /\ Len(outcomes) = 2
    /\ outcomes[2] = Returned(<< >>)
    /\ tried # << >>
    /\ \E n \in 1..Len(notifications) :
          notifications[n].kind = "failure" /\ notifications[n].attempt = 2

----------------------------------------------------------------------------
(* The callers, the page interactions and the scheduler: C21 - C30 *)

\* C21: when the retry wrapper has used up its tries, the caller of
\* attempt_booking, in the scheduled mode as in the one-shot mode, sends a
\* failure notification (when a notifier is configured) and reports a failing
\* outcome (None, exit code 1) instead of crashing.
C21_ExhaustionNotifiedAndReported ==
    (pc \in {"stop", "done"} /\ IsFailed(result) /\ Len(outcomes) = StopAttempts) =>
        /\ has_notifier =>
              \E n \in 1..Len(notifications) : notifications[n].kind = "failure"
        /\ mode = "scheduled" => run_result = Returned(<< >>)
        /\ mode = "one_shot" => exit_code = 1

\* C22: in one-shot mode the exit code is 0 exactly when the run ended in
\* Succeeded (a slot was booked), and 1 when it ended in NoSlotsFound, in
\* Failed after the retries, or when loading the configuration failed, in
\* which case no browser is started.
C22_ExitCodeZeroIffBooked ==
    mode = "one_shot" =>
        /\ (settings_ok /\ pc \in {"stop", "done"}) =>
              /\ exit_code \in {0, 1}
              /\ exit_code = 0 <=> (IsSucceeded(result) /\ booked # << >>)
              /\ result = Returned(<< >>) => exit_code = 1
              /\ IsFailed(result) => exit_code = 1
        /\ ~settings_ok =>
              /\ ~browser_started
              /\ sessions = 0
              /\ attempts = 0
              /\ pc = "done" => exit_code = 1
        /\ pc \in {"stop", "done"} => exit_code # -1

\* the configuration could not be loaded: exit code 1 and nothing was started
C22_Witness ==
    /\ mode = "one_shot"
    /\ ~settings_ok
    /\ pc = "done"
    /\ exit_code = 1
    /\ ~browser_started

\* C23: select_date is best-effort and never raises: whatever the date picker
\* lookup, the fill and the next button lookups and clicks do, select_date
\* returns normally and the attempt goes on to the scan.
C23_SelectDateNeverRaises == pc # "date_raised"

\* the clicks select_date has to make when it has no date picker
ClicksNeeded == IF target_date - today > 0 THEN target_date - today ELSE 0

\* C24: in select_date, when the date picker is found and filled no next
\* button is clicked; when it is not found and every next button lookup
\* succeeds, exactly N = (target_date - today).days clicks are made, none for
\* N <= 0; when a next button cannot be found after k < N clicks, clicking
\* stops at k and select_date returns normally.
C24_ClicksOnNextButton ==
    /\ date_picker = "found" => (next_found = 0 /\ next_clicks = 0)
    /\ date_filled => (date_picker = "found" /\ pc = "date_returned")
    /\ next_clicks <= next_found /\ next_found <= next_clicks + 1
    /\ next_clicks <= ClicksNeeded
    /\ (date_picker = "timeout" /\ pc \in {"date_returned", "date_raised"}
            /\ next_found = ClicksNeeded) => next_clicks = ClicksNeeded
    /\ (date_picker = "timeout" /\ ClicksNeeded = 0) =>
            (pc = "date_returned" /\ next_found = 0 /\ next_clicks = 0)
    /\ (date_picker = "timeout" /\ pc = "date_returned" /\ next_found < ClicksNeeded) =>
            next_clicks = next_found
    /\ (pc = "next_button" /\ next_found < ClicksNeeded) => next_clicks = next_found

\* no date picker, the target seven days ahead, seven next buttons clicked
C24_Witness ==
    /\ pc = "date_returned"
    /\ date_picker = "timeout"
    /\ target_date - today = 7
    /\ next_found = 7
    /\ next_clicks = 7

\* C25: every page-interaction failure while navigating to the booking
\* section or while scanning slots ends the attempt in the retryable Failed
\* kind: an attempt whose scan hit an error does not return, neither None
\* (NoSlotsFound) nor a slot.
C25_ScanErrorFailsAttempt ==
    (scan_error /\ outcome.kind # "none") => outcome.kind # "result"

\* the index at which a court first appears in the priority list
FirstIndex(court) ==
    CHOOSE k \in 1..Len(preferred_courts) :
        /\ preferred_courts[k] = court
        /\ \A m \in 1..(k - 1) : preferred_courts[m] # court

C27_TriesAreRetryCount ==
    (/\ pc \in {"caller", "stop", "done"}
     /\ IsFailed(result)
     /\ \A i \in 1..Len(outcomes) : IsFailed(outcomes[i])) => attempts = retry_count

\* the hour of day the text of an element stands for, after AM/PM
HourOfText(text) ==
    IF text.am_pm = "PM" /\ text.hour # 12 THEN text.hour + 12
    ELSE IF text.am_pm = "AM" /\ text.hour = 12 THEN 0
    ELSE text.hour

\* C28: every BookingSlot a scan produces has start_time < end_time with
\* end_time one hour after start_time; a slot returned by get_available_slots
\* has available = true only because the class of its element contains
\* "available" and none of "booked", "disabled", "unavailable"; a start hour
\* whose start + 1 hour is no time of day (hour 23, or above 23 after AM/PM)
\* gives no slot.
C28_ScannedSlotsWellFormed ==
    pc = "scan_done" =>
        /\ \A k \in 1..Len(slots) :
              LET s == slots[k]
                  e == slot_elements[s.element_selector]
              IN  /\ s.start_time < s.end_time
                  /\ s.end_time = s.start_time + 60
                  /\ s.end_time < 24 * 60
                  /\ s.available
                  /\ e.available /\ ~e.blocked
                  /\ e.text.matched
                  /\ s.start_time = 60 * HourOfText(e.text) + e.text.minute
        /\ \A i \in 1..Len(slot_elements) :
              (slot_elements[i].text.matched /\ HourOfText(slot_elements[i].text) >= 23)
                  => \A k \in 1..Len(slots) : slots[k].element_selector # i

\* a page whose first element reads 23:00 and whose second reads 22:30, both
\* available: only the second one gives a slot
C28_Witness ==
    /\ pc = "scan_done"
    /\ ~scan_error
    /\ Len(slot_elements) = 2
    /\ slot_elements[1] = [available |-> TRUE, blocked |-> FALSE, text |-> Match(23, 0, "")]
    /\ slot_elements[2] = [available |-> TRUE, blocked |-> FALSE, text |-> Match(22, 30, "")]
    /\ Len(slots) = 1
    /\ slots[1].element_selector = 2
    /\ slots[1].end_time = Time(23, 30)

\* the runs of the booking job that are in progress
RunsInProgress == {k \in 1..Len(job) : job[k] \in {"submitted", "entered", "ran"}}

\* C29: at no time are two runs of the booking job in progress in one
\* process: a trigger that fires while a run is still executing starts no new
\* run (the run is skipped), and the shared bot and browser are never used by
\* two runs at once.
C29_NoConcurrentRuns ==
    /\ Cardinality(RunsInProgress) <= 1
    /\ Cardinality(bot_users) <= 1
    /\ bot_users \subseteq RunsInProgress
    /\ instances = Cardinality(RunsInProgress)
    /\ browser_started <=> bot_users # {}
    /\ \A k \in skipped : job[k] = "skipped"

\* the second firing came while the first run was executing and was skipped;
\* the third one runs after the first has finished
C29_Witness ==
    /\ Len(job) = 3
    /\ job[1] = "finished"
    /\ job[2] = "skipped"
    /\ job[3] = "entered"
    /\ bot_users = {3}

\* C30: within one run (all tries of the retry wrapper together) at most one
\* book_slot call returns true: once a slot has been booked there is no
\* further book_slot call, no further attempt and no retry in that run, so a
\* run never books two slots.
C30_AtMostOneBooking ==
    /\ Len(booked) <= 1
    /\ booked # << >> =>
          /\ tried # << >>
          /\ tried[Len(tried)].returned
          /\ tried[Len(tried)].slot = booked[1]
          /\ \A k \in 1..(Len(tried) - 1) : ~tried[k].returned
          /\ pc \in {"booked", "close", "wrapper", "caller", "stop", "done"}
          /\ pc = "wrapper" => (outcome.kind # "none" /\ ~RetryIf(outcome))
          /\ attempts \in reached \ none_returned
          /\ Len(delays) = attempts - 1

\* the third attempt booked a slot after two failed attempts, and the run is over
C30_Witness ==
    /\ pc = "done"
    /\ attempts = 3
    /\ Len(booked) = 1
    /\ IsFailed(outcomes[1])
    /\ IsFailed(outcomes[2])
    /\ result = Returned(<<booked[1]>>)

----------------------------------------------------------------------------
(* Order, notifications, termination and the browser: C31 - C34 *)

\* the collaborator calls of an attempt, without its screenshots and messages
CollaboratorCalls ==
    SelectSeq(calls, LAMBDA c : c \in {"login_navigate", "login"} \cup AfterLoginCalls)

\* the fixed order, with as many book_slot calls as were made
FixedOrder ==
    <<"login_navigate", "login", "navigate_to_tennis", "select_date", "get_available_slots">>
        \o [k \in 1..Len(tried) |-> "book_slot"]

\* C31: within each attempt the collaborator calls happen in the fixed order
\* login page navigate, login, navigate_to_tennis, select_date, scan,
\* book_slot*: navigate_to_tennis, select_date, the scan and book_slot are
\* never invoked in an attempt unless login returned true earlier in that
\* same attempt; the login result of a previous attempt does not count.
C31_CallsInFixedOrder ==
    /\ Len(CollaboratorCalls) <= Len(FixedOrder)
    /\ \A k \in 1..Len(CollaboratorCalls) : CollaboratorCalls[k] = FixedOrder[k]
    /\ (Range(calls) \cap AfterLoginCalls # {} \/ tried # << >>) =>
          (login_success = "true" /\ "login" \in Range(calls))
    /\ pc \in {"new_page", "login_navigate", "login"} =>
          (login_success = "unset" /\ Range(calls) \cap AfterLoginCalls = {})

\* a second attempt whose login returned false, after a first attempt that
\* logged in and got as far as the date selection: it made no call after login
C31_Witness ==
    /\ attempts = 2
    /\ IsFailed(outcomes[1])
    /\ outcomes[1].exc.cause = "select_date"
    /\ login_success = "false"
    /\ pc = "close"
    /\ CollaboratorCalls = <<"login_navigate", "login">>

\* C32: a run of run_scheduled_booking with a configured notifier sends at
\* most one notification in total across all retries, and it is a success
\* notification if and only if the run returns a booked slot; attempts that
\* end in Failed and are retried send no notification of their own.
C32_AtMostOneNotification ==
    (mode = "scheduled" /\ has_notifier) =>
        /\ Len(notifications) <= 1
        /\ pc \in {"stop", "done"} =>
              ((\E n \in 1..Len(notifications) : notifications[n].kind = "success")
                   <=> IsSucceeded(run_result))
        /\ pc \notin {"stop", "done"} =>
              \A n \in 1..Len(notifications) :
                  notifications[n].attempt <= Len(outcomes)
                      => ~IsFailed(outcomes[notifications[n].attempt])
        /\ (pc \in {"sleep", "new_page"} \/ pc \in AttemptSteps) => notifications = << >>

\* three attempts failed and were retried without a message; the caller sent
\* the one failure notification of the run
C32_Witness ==
    /\ mode = "scheduled"
    /\ has_notifier
    /\ pc = "done"
    /\ attempts = 3
    /\ \A i \in 1..3 : IsFailed(outcomes[i])
    /\ Len(notifications) = 1
    /\ notifications[1].kind = "failure"
    /\ run_result = Returned(<< >>)

\* C33: every run terminates in exactly one of Succeeded, NoSlotsFound or
\* Failed after at most 3 attempts, each attempt making at most one book_slot
\* call per ranked slot: a scheduled run that made an attempt and is over (and
\* was not cancelled from outside) has returned a booked slot, or None after
\* NoSlotsFound, or has ended with BookingError.
C33_RunEndsInOneOutcome ==
    /\ attempts <= StopAttempts
    /\ Len(tried) <= Len(ranked)
    /\ (mode = "scheduled" /\ attempts >= 1 /\ pc \in {"stop", "done"}
            /\ result.exc.type # "CancelledError") =>
          \/ IsSucceeded(result)
          \/ result = Returned(<< >>) /\ attempts \in none_returned
          \/ IsFailed(result)

\* C34: BrowserManager lifecycle: new_context / new_page succeed only while
\* the browser is started (after start() and before stop()); called before
\* start() or after stop() they raise RuntimeError without creating a
\* context; and a stop() right after a stop() is a no-op that leaves the
\* manager stopped.
C34_ManagerLifecycle ==
    /\ session_open => browser_started
    /\ \A k \in 1..Len(manager_log) :
          LET c == manager_log[k]
          IN  /\ (c.op = "new_context" /\ c.raised = "none") =>
                    (c.started_before /\ c.contexts_after = c.contexts_before + 1)
              /\ (c.op = "new_context" /\ ~c.started_before) =>
                    (c.raised = "RuntimeError" /\ c.contexts_after = c.contexts_before)
              /\ (c.op = "new_context" /\ k = 1) => c.raised = "RuntimeError"
              /\ (c.op = "new_context" /\ k > 1 /\ manager_log[k - 1].op = "stop"
                      /\ manager_log[k - 1].raised = "none") => c.raised = "RuntimeError"
              /\ (c.op = "stop" /\ k > 1 /\ manager_log[k - 1].op = "stop"
                      /\ manager_log[k - 1].raised = "none") =>
                    /\ c.raised = "none"
                    /\ ~c.started_before
                    /\ ~c.started_after
                    /\ c.contexts_after = c.contexts_before

\* start, stop, stop again, then new_context: RuntimeError and no context
C34_Witness ==
    /\ Len(manager_log) = 4
    /\ manager_log[1].op = "start" /\ manager_log[1].raised = "none"
    /\ manager_log[2].op = "stop" /\ manager_log[2].raised = "none"
    /\ manager_log[3].op = "stop" /\ manager_log[3].raised = "none"
    /\ manager_log[4].op = "new_context" /\ manager_log[4].raised = "RuntimeError"
    /\ ~browser_started
    /\ ~playwright_started
    /\ sessions = 0

====
